---- MODULE Spec2Model ----
(***************************************************************************)
(* The "window" rule keyword of the detection engine (src/detect-window.c):*)
(* registration of the keyword and of its option grammar, parsing of one   *)
(* option text into a DetectWindowData, attaching it to a signature, and   *)
(* matching it against decoded packets from several packet workers.        *)
(*                                                                         *)
(* A text is a sequence of one-character strings.  The heap is a function  *)
(* from block addresses (positive integers) to block contents; NULL is 0.  *)
(***************************************************************************)
EXTENDS Integers, Sequences, FiniteSets, TLC

VARIABLES parse_regex,        \* static pcre *parse_regex
          parse_regex_study,  \* static pcre_extra *parse_regex_study
          sigmatch_table,     \* sigmatch_table[DETECT_WINDOW]
          heap,               \* live malloc blocks: address -> contents
          sig,                \* the signature's SigMatch list (addresses, in order)
          last,               \* the last completed call: operation, inputs, return value
          calls,              \* number of rule-load time calls made so far
          phase,              \* "init" | "load" | "run" | "down"
          wk                  \* per packet worker: its DetectWindowMatch activation

vars == <<parse_regex, parse_regex_study, sigmatch_table, heap, sig, last, calls, phase, wk>>

----------------------------------------------------------------------------
(* Bounds of the model *)

\* longest text of the exhaustive part of the input alphabet
MaxLen == 3
\* rule-load time calls (DetectWindowSetup and the packet self-tests) per run
MaxCalls == 2
\* packet workers
NumWorkers == 2

----------------------------------------------------------------------------
(* Program constants *)

NULL == 0
MAX_SUBSTRINGS == 30
MAX_WINDOW_VALUE == 65535
PCRE_ERROR_NOMATCH == 0 - 1
PCRE_ERROR_NULL == 0 - 2
PCRE_ERROR_NOMEMORY == 0 - 6
PCRE_ERROR_NOSUBSTRING == 0 - 7
UNINIT == "uninit"

----------------------------------------------------------------------------
(* Characters *)

Digit == <<"0", "1", "2", "3", "4", "5", "6", "7", "8", "9">>

IsDigit(c) == \E d \in 1..10 : Digit[d] = c

DigitVal(c) == (CHOOSE d \in 1..10 : Digit[d] = c) - 1

\* PCRE's \s
IsSpace(c) == c \in {" ", "\t", "\n", "\r", "\f"}

----------------------------------------------------------------------------
(* pcre_exec on PARSE_REGEX  "^\s*([!])?\s*([0-9]{1,9}+)\s*$"              *)

\* greedy \s* from position i (1-based): the first position not consumed
SkipSpace(s, i) ==
    CHOOSE j \in i..(Len(s) + 1) :
        /\ \A k \in i..(j - 1) : IsSpace(s[k])
        /\ (j = Len(s) + 1 \/ ~IsSpace(s[j]))

\* ([!])? from position i: TRUE when the group takes part in the match
HasBang(s, i) == i <= Len(s) /\ s[i] = "!"

\* possessive [0-9]{1,9}+ from position i: the first position not consumed
TakeDigits(s, i) ==
    CHOOSE j \in i..(Len(s) + 1) :
        /\ j - i <= 9
        /\ \A k \in i..(j - 1) : IsDigit(s[k])
        /\ (j - i = 9 \/ j = Len(s) + 1 \/ ~IsDigit(s[j]))

\* the closing $ (after the greedy \s* nothing but the end can follow)
AnchorAnywhere(s, e) == TRUE

AnchorEnd(s, e) == e = Len(s) + 1

\* the result of pcre_exec: return code and offset vector (0-based offsets,
\* pairs for the whole match, group 1 and group 2; -1 for an unset group)
pcre_exec(code, subject) ==
    IF code = NULL
    THEN [rc |-> PCRE_ERROR_NULL, ov |-> <<>>]
    ELSE LET a    == SkipSpace(subject, 1)
             bang == HasBang(subject, a)
             b    == IF bang THEN a + 1 ELSE a
             c    == SkipSpace(subject, b)
             d    == TakeDigits(subject, c)
             e    == SkipSpace(subject, d)
         IN  IF d > c /\ AnchorEnd(subject, e)
             THEN [rc |-> 3,
                   ov |-> <<0, Len(subject),
                            IF bang THEN a - 1 ELSE 0 - 1, IF bang THEN a ELSE 0 - 1,
                            c - 1, d - 1>>]
             ELSE [rc |-> PCRE_ERROR_NOMATCH, ov |-> <<>>]

\* pcre_get_substring: the text of group n, or a negative error code
pcre_get_substring(subject, ov, stringcount, n) ==
    IF n < 0 \/ n >= stringcount
    THEN [res |-> PCRE_ERROR_NOSUBSTRING, str |-> <<>>]
    ELSE LET from == ov[2 * n + 1]
             to   == ov[2 * n + 2]
         IN  [res |-> to - from,
              str |-> IF to > from THEN SubSeq(subject, from + 1, to) ELSE <<>>]

----------------------------------------------------------------------------
(* atoi on a digit run, and the store into DetectWindowData.size *)

\* a run of at most nine digits stays below 2^31: the int never overflows
RECURSIVE atoi(_)
atoi(s) == IF s = <<>> THEN 0
           ELSE atoi(SubSeq(s, 1, Len(s) - 1)) * 10 + DigitVal(s[Len(s)])

\* wd->size = ...: the field is an unsigned integer wide enough for every
\* value atoi returns here, so that the range check sees the value parsed
StoreSize(v) == v

\* args[0][0] == '!'
NegatedNever(arg) == 0

Negated(arg) == IF Len(arg) > 0 /\ arg[1] = "!" THEN 1 ELSE 0

----------------------------------------------------------------------------
(* The heap *)

EmptyHeap == [q \in {} |-> NULL]

\* the address malloc hands out: the lowest one not in use
Fresh(h) ==
    CHOOSE i \in 1..(Cardinality(DOMAIN h) + 1) :
        i \notin DOMAIN h /\ \A j \in 1..(i - 1) : j \in DOMAIN h

Store(h, p, blk) == [q \in DOMAIN h \cup {p} |-> IF q = p THEN blk ELSE h[q]]

\* free(p); free(NULL) does nothing
free(h, p) == [q \in DOMAIN h \ {p} |-> h[q]]

DetectWindowFree(h, ptr) == free(h, ptr)

\* for (i = 0; i < (ret - 1); i++) if (args[i] != NULL) free(args[i]);
FreeArgs(h, ret, args) ==
    [q \in DOMAIN h \ {args[i + 1] : i \in {k \in 0..2 : k < ret - 1}} |-> h[q]]

----------------------------------------------------------------------------
(* DetectWindowParse *)

\* if (wd->size > MAX_WINDOW_VALUE) goto error;
OutOfRangeOffByOne(size) == size > MAX_WINDOW_VALUE + 1

OutOfRange(size) == size > MAX_WINDOW_VALUE

\* the error: label
ParseError(h, ret, args, wd) ==
    [wd |-> NULL, heap |-> DetectWindowFree(FreeArgs(h, ret, args), wd)]

\* the normal return
ParseReturn(h, ret, args, wd) ==
    [wd |-> wd, heap |-> FreeArgs(h, ret, args)]

\* ret > 2: the size
ParseSize(h, ret, args, wd, windowstr, ov, oom) ==
    LET sub == pcre_get_substring(windowstr, ov, MAX_SUBSTRINGS, 2)
        res == IF oom = 3 THEN PCRE_ERROR_NOMEMORY ELSE sub.res
    IN  IF res < 0 THEN ParseError(h, ret, args, wd)
        ELSE LET str_ptr == Fresh(h)     \* never stored in args[]
                 h1 == Store(h, str_ptr, [kind |-> "str"])
                 size == StoreSize(atoi(sub.str))
                 h2 == Store(h1, wd, [h1[wd] EXCEPT !.size = size])
             IN  IF OutOfRange(size) THEN ParseError(h2, ret, args, wd)
                 ELSE ParseReturn(h2, ret, args, wd)

\* ret > 1: the negation
ParseNegated(h, ret, wd, windowstr, ov, oom) ==
    LET sub == pcre_get_substring(windowstr, ov, MAX_SUBSTRINGS, 1)
        res == IF oom = 2 THEN PCRE_ERROR_NOMEMORY ELSE sub.res
    IN  IF res < 0 THEN ParseError(h, ret, <<NULL, NULL, NULL>>, wd)
        ELSE LET str_ptr == Fresh(h)
                 args == <<str_ptr, NULL, NULL>>
                 h1 == Store(h, str_ptr, [kind |-> "str"])
                 h2 == Store(h1, wd, [h1[wd] EXCEPT !.negated = Negated(sub.str)])
             IN  IF ret > 2 THEN ParseSize(h2, ret, args, wd, windowstr, ov, oom)
                 ELSE ParseReturn(h2, ret, args, wd)

\* oom names the allocation of this call that fails: 0 none, 1 the malloc of
\* wd, 2 and 3 the first and second pcre_get_substring
DetectWindowParse(regex, windowstr, h, oom) ==
    LET m   == pcre_exec(regex, windowstr)
        ret == m.rc
    IN  IF ret < 1 \/ ret > 3 THEN ParseError(h, ret, <<NULL, NULL, NULL>>, NULL)
        ELSE IF oom = 1 THEN ParseError(h, ret, <<NULL, NULL, NULL>>, NULL)
        ELSE LET wd == Fresh(h)
                 h1 == Store(h, wd, [kind |-> "wd", negated |-> UNINIT, size |-> UNINIT])
             IN  IF ret > 1 THEN ParseNegated(h1, ret, wd, windowstr, m.ov, oom)
                 ELSE ParseReturn(h1, ret, <<NULL, NULL, NULL>>, wd)

----------------------------------------------------------------------------
(* DetectWindowSetup *)

\* the error: label of DetectWindowSetup
SetupErrorKeepsWd(h, wd, sm) == free(h, sm)

SetupError(h, wd, sm) == free(DetectWindowFree(h, wd), sm)

\* SigMatchAppend(s, m, sm): sm goes behind m, the signature's last SigMatch
SigMatchAppend(s, sm) == Append(s, sm)

\* oom = 4: SigMatchAlloc fails.  n and text are kept with the node for the
\* record: the number of the call and the option text it was given.
DetectWindowSetupCall(regex, h, s, windowstr, oom, n) ==
    LET r  == DetectWindowParse(regex, windowstr, h, oom)
        wd == r.wd
    IN  IF wd = NULL
        THEN [ret |-> 0 - 1, heap |-> SetupError(r.heap, wd, NULL), sig |-> s]
        ELSE IF oom = 4
        THEN [ret |-> 0 - 1, heap |-> SetupError(r.heap, wd, NULL), sig |-> s]
        ELSE LET sm == Fresh(r.heap)
             IN  [ret  |-> 0,
                  heap |-> Store(r.heap, sm, [kind |-> "sm", type |-> "DETECT_WINDOW",
                                              ctx |-> wd, n |-> n, text |-> windowstr]),
                  sig  |-> SigMatchAppend(s, sm)]

----------------------------------------------------------------------------
(* Decoded packets and DetectWindowMatch *)

IPPROTO_TCP == 6
IPPROTO_UDP == 17
ETHERNET_TYPE_IP == 2048

\* raw_eth of the self-tests: Ethernet, IPv4 and TCP headers (the payload
\* that follows plays no part in the decoding of the window)
raw_eth_190 ==
    <<0, 37, 0, 158, 250, 254, 0, 2, 207, 116, 254, 225, 8, 0,
      69, 0, 1, 204, 203, 145, 0, 0, 52, 6, 223, 168, 209, 85, 227, 103, 192, 168, 100, 140,
      0, 80, 192, 183, 209, 17, 237, 99, 129, 169, 154, 5, 128, 24, 0, 190, 10, 221, 0, 0,
      1, 1, 8, 10, 9, 138, 6, 208, 18, 33, 42, 59>>

raw_eth ==
    <<0, 37, 0, 158, 250, 254, 0, 2, 207, 116, 254, 225, 8, 0,
      69, 0, 1, 204, 203, 145, 0, 0, 52, 6, 223, 168, 209, 85, 227, 103, 192, 168, 100, 140,
      0, 80, 192, 183, 209, 17, 237, 99, 129, 169, 154, 5, 128, 24, 0, 117, 10, 221, 0, 0,
      1, 1, 8, 10, 9, 138, 6, 208, 18, 33, 42, 59>>

\* byte at 0-based offset o
Byte(raw, o) == raw[o + 1]

\* DecodeEthernet: the fields of the decoded packet this keyword reads
DecodeEthernet(raw) ==
    LET ethtype == Byte(raw, 12) * 256 + Byte(raw, 13)
        ihl     == (Byte(raw, 14) % 16) * 4
        proto   == Byte(raw, 23)
        tcp     == 14 + ihl
    IN  IF ethtype = ETHERNET_TYPE_IP /\ Byte(raw, 14) \div 16 = 4
        THEN [proto |-> proto,
              th_win |-> IF proto = IPPROTO_TCP
                         THEN Byte(raw, tcp + 14) * 256 + Byte(raw, tcp + 15) ELSE 0]
        ELSE [proto |-> 0, th_win |-> 0]

PKT_IS_TCP(p) == p.proto = IPPROTO_TCP

TCP_GET_WINDOW(p) == p.th_win

FixturePacket == DecodeEthernet(raw_eth)

\* the packets the workers inspect
Packets == {FixturePacket,
            [proto |-> IPPROTO_TCP, th_win |-> 190],
            [proto |-> IPPROTO_UDP, th_win |-> 0]}

NoPacket == [proto |-> 0, th_win |-> 0]

\* if (!(PKT_IS_TCP(p))) return 0;
NeverSkip(p) == FALSE

SkipNonTcp(p) == ~PKT_IS_TCP(p)

\* the condition of line 97
WindowCompareRange(negated, size, win) ==
    (negated = 0 /\ win >= size) \/ (negated # 0 /\ win < size)

WindowCompare(negated, size, win) ==
    (negated = 0 /\ size = win) \/ (negated # 0 /\ size # win)

\* DetectWindowMatch run to completion on a heap that nobody else touches
DetectWindowMatch(h, p, m) ==
    LET wd == h[m].ctx
    IN  IF wd = NULL THEN 0
        ELSE IF SkipNonTcp(p) THEN 0
        ELSE IF WindowCompare(h[wd].negated, h[wd].size, TCP_GET_WINDOW(p)) THEN 1
        ELSE 0

\* a SigMatch on the stack of a self-test: m.ctx = wd
StackSigMatch(h, wd) == Store(h, 0 - 1, [kind |-> "sm", ctx |-> wd])

\* DetectWindowTestPacket01 / 02 up to the option text
DetectWindowTestPacket(regex, h, windowstr) ==
    LET r == DetectWindowParse(regex, windowstr, h, 0)
        p == DecodeEthernet(raw_eth)
    IN  IF r.wd = NULL THEN [result |-> 0, heap |-> r.heap]
        ELSE IF ~PKT_IS_TCP(p) THEN [result |-> 0, heap |-> r.heap]
        ELSE [result |-> DetectWindowMatch(StackSigMatch(r.heap, r.wd), p, 0 - 1),
              heap |-> r.heap]

----------------------------------------------------------------------------
(* Inputs *)

RECURSIVE Decimal(_)
Decimal(v) == IF v < 10 THEN <<Digit[v + 1]>>
              ELSE Append(Decimal(v \div 10), Digit[(v % 10) + 1])

ZeroPad(d, w) == [k \in 1..(w - Len(d)) |-> "0"] \o d

\* every text of at most MaxLen characters over a small alphabet
ShortTexts == UNION {[1..k -> {"!", " ", "7", "x"}] : k \in 0..MaxLen}

Values == {0, 9, 117, 190, 35402, 55455, 65535, 65536, 65537, 100000, 1235402, 999999999}

DigitRuns == {Decimal(v) : v \in Values}
             \cup {ZeroPad(Decimal(v), 9) : v \in Values}
             \cup {ZeroPad(Decimal(v), 10) : v \in Values}

Prefixes == {<<>>, <<"!">>, <<" ">>, <<" ", "!", " ">>, <<"\t", "!">>, <<"!", "!">>,
             <<"x">>, <<"-">>}

Suffixes == {<<>>, <<" ">>, <<"\n">>, <<"x">>, <<" ", "1">>}

FramedTexts == {a \o d \o z : a \in Prefixes, d \in DigitRuns, z \in Suffixes}

\* the option texts given to DetectWindowParse
ParseTexts == ShortTexts \cup FramedTexts

\* the option texts of the rules given to DetectWindowSetup
SetupTexts == {Decimal(117), <<"!">> \o Decimal(117), Decimal(65536), <<"1", "x">>}

Workers == 1..NumWorkers

----------------------------------------------------------------------------
(* The state machine *)

COMPILED == 1

NoEntry == [name |-> "", Match |-> "", Setup |-> "", Free |-> "", RegisterTests |-> ""]

NoCall == [op |-> "none", text |-> <<>>, oom |-> 0, ret |-> 0, live |-> {}, sig0 |-> <<>>]

Idle == [pc |-> "idle", m |-> NULL, p |-> NoPacket, wd |-> NULL, ret |-> 0]

Init ==
    /\ parse_regex = NULL
    /\ parse_regex_study = NULL
    /\ sigmatch_table = NoEntry
    /\ heap = EmptyHeap
    /\ sig = <<>>
    /\ last = NoCall
    /\ calls = 0
    /\ phase = "init"
    /\ wk = [w \in Workers |-> Idle]

\* the blocks a call allocated that are still allocated when it returns
Live(before, after) == DOMAIN after \ DOMAIN before

\* DetectWindowRegister; outcome: what pcre_compile and pcre_study do
DetectWindowRegister(outcome) ==
    /\ phase = "init"
    /\ sigmatch_table' = [name |-> "window", Match |-> "DetectWindowMatch",
                          Setup |-> "DetectWindowSetup", Free |-> "DetectWindowFree",
                          RegisterTests |-> "DetectWindowRegisterTests"]
    /\ parse_regex' = IF outcome = "compile_fails" THEN NULL ELSE COMPILED
    /\ parse_regex_study' = IF outcome = "ok" THEN COMPILED ELSE NULL
    /\ phase' = "load"      \* both the return and the error: label just return
    /\ last' = [NoCall EXCEPT !.op = "Register"]
    /\ UNCHANGED <<heap, sig, calls, wk>>

\* a direct call of DetectWindowParse, as the self-tests make it
ParseCall(windowstr, oom) ==
    /\ phase = "load"
    /\ last.op = "Register"       \* one call in a run: the result does not depend on earlier ones
    /\ LET r == DetectWindowParse(parse_regex, windowstr, heap, oom)
       IN  /\ heap' = r.heap
           /\ last' = [op |-> "Parse", text |-> windowstr, oom |-> oom, ret |-> r.wd,
                       live |-> Live(heap, r.heap), sig0 |-> sig]
    /\ calls' = calls + 1
    /\ UNCHANGED <<parse_regex, parse_regex_study, sigmatch_table, sig, phase, wk>>

\* the caller of DetectWindowParse gives the result to DetectWindowFree
ParseRelease ==
    /\ phase = "load"
    /\ last.op = "Parse"
    /\ heap' = DetectWindowFree(heap, last.ret)
    /\ last' = [NoCall EXCEPT !.op = "Free"]
    /\ UNCHANGED <<parse_regex, parse_regex_study, sigmatch_table, sig, calls, phase, wk>>

\* sigmatch_table[DETECT_WINDOW].Setup called by the rule loader
DetectWindowSetup(windowstr, oom) ==
    /\ phase = "load"
    /\ calls < MaxCalls
    /\ sigmatch_table.Setup = "DetectWindowSetup"
    /\ LET r == DetectWindowSetupCall(parse_regex, heap, sig, windowstr, oom, calls + 1)
       IN  /\ heap' = r.heap
           /\ sig' = r.sig
           /\ last' = [op |-> "Setup", text |-> windowstr, oom |-> oom, ret |-> r.ret,
                       live |-> Live(heap, r.heap), sig0 |-> sig]
    /\ calls' = calls + 1
    /\ UNCHANGED <<parse_regex, parse_regex_study, sigmatch_table, phase, wk>>

TestPacketRun(op, windowstr) ==
    /\ phase = "load"
    /\ calls < MaxCalls
    /\ LET r == DetectWindowTestPacket(parse_regex, heap, windowstr)
       IN  /\ heap' = r.heap
           /\ last' = [op |-> op, text |-> windowstr, oom |-> 0, ret |-> r.result,
                       live |-> Live(heap, r.heap), sig0 |-> sig]
    /\ calls' = calls + 1
    /\ UNCHANGED <<parse_regex, parse_regex_study, sigmatch_table, sig, phase, wk>>

DetectWindowTestPacket01 == TestPacketRun("TestPacket01", <<"!">> \o Decimal(55455))

DetectWindowTestPacket02 == TestPacketRun("TestPacket02", Decimal(117))

\* rule loading is over; the packet workers start
StartWorkers ==
    /\ phase = "load"
    /\ phase' = "run"
    /\ last' = NoCall
    /\ calls' = 0
    /\ UNCHANGED <<parse_regex, parse_regex_study, sigmatch_table, heap, sig, wk>>

\* DetectWindowMatch, lines 83-95: worker w is given the SigMatch at place i
\* of the signature and its packet p
DetectWindowMatchEnter(w, i, p) ==
    /\ phase = "run"
    /\ wk[w].pc = "idle"
    /\ i \in 1..Len(sig)
    /\ LET wd == heap[sig[i]].ctx
       IN  wk' = [wk EXCEPT ![w] =
                    [pc  |-> IF wd = NULL \/ SkipNonTcp(p) THEN "ret" ELSE "cmp",
                     m |-> sig[i], p |-> p, wd |-> wd, ret |-> 0]]
    /\ UNCHANGED <<parse_regex, parse_regex_study, sigmatch_table, heap, sig, last, calls, phase>>

\* the same step, had it cleared the flag it has just read
DetectWindowMatchCompareWrites(w) ==
    /\ phase = "run"
    /\ wk[w].pc = "cmp"
    /\ LET wd == heap[wk[w].wd]
       IN  wk' = [wk EXCEPT ![w].pc = "ret",
                            ![w].ret = IF WindowCompare(wd.negated, wd.size,
                                                        TCP_GET_WINDOW(wk[w].p))
                                       THEN 1 ELSE 0]
    /\ heap' = [heap EXCEPT ![wk[w].wd].negated = 0]
    /\ UNCHANGED <<parse_regex, parse_regex_study, sigmatch_table, sig, last, calls, phase>>

\* DetectWindowMatch, lines 97-103
DetectWindowMatchCompare(w) ==
    /\ phase = "run"
    /\ wk[w].pc = "cmp"
    /\ LET wd == heap[wk[w].wd]
       IN  wk' = [wk EXCEPT ![w].pc = "ret",
                            ![w].ret = IF WindowCompare(wd.negated, wd.size,
                                                        TCP_GET_WINDOW(wk[w].p))
                                       THEN 1 ELSE 0]
    /\ UNCHANGED <<parse_regex, parse_regex_study, sigmatch_table, heap, sig, last, calls, phase>>

\* DetectWindowMatch, line 106: the result goes back to the worker
DetectWindowMatchReturn(w) ==
    /\ phase = "run"
    /\ wk[w].pc = "ret"
    /\ wk' = [wk EXCEPT ![w] = Idle]
    /\ UNCHANGED <<parse_regex, parse_regex_study, sigmatch_table, heap, sig, last, calls, phase>>

\* the signature is torn down once no worker is inside DetectWindowMatch:
\* sigmatch_table[DETECT_WINDOW].Free on every ctx, then the SigMatch itself
RECURSIVE FreeList(_, _)
FreeList(h, s) ==
    IF s = <<>> THEN h
    ELSE FreeList(free(DetectWindowFree(h, h[Head(s)].ctx), Head(s)), Tail(s))

SigFree ==
    /\ phase = "run"
    /\ \A w \in Workers : wk[w].pc = "idle"
    /\ heap' = FreeList(heap, sig)
    /\ sig' = <<>>
    /\ phase' = "down"
    /\ UNCHANGED <<parse_regex, parse_regex_study, sigmatch_table, last, calls, wk>>

Next ==
    \/ \E o \in {"ok", "compile_fails", "study_fails"} : DetectWindowRegister(o)
    \/ \E t \in SetupTexts, oom \in 0..4 : DetectWindowSetup(t, oom)
    \/ DetectWindowTestPacket01
    \/ DetectWindowTestPacket02
    \/ StartWorkers
    \/ \E w \in Workers, i \in 1..Len(sig), p \in Packets : DetectWindowMatchEnter(w, i, p)
    \/ \E w \in Workers : DetectWindowMatchCompare(w)
    \/ \E w \in Workers : DetectWindowMatchReturn(w)
    \/ SigFree

Spec == Init /\ [][Next]_vars

\* DetectWindowParse alone, over the whole input alphabet
NextParse ==
    \/ \E o \in {"ok", "compile_fails", "study_fails"} : DetectWindowRegister(o)
    \/ \E t \in ParseTexts, oom \in 0..3 : ParseCall(t, oom)
    \/ ParseRelease

SpecParse == Init /\ [][NextParse]_vars

----------------------------------------------------------------------------
(* What the claims say about texts, stated without the parser *)

AllDigits(d) == \A k \in 1..Len(d) : IsDigit(d[k])

RECURSIVE Pow10(_)
Pow10(n) == IF n = 0 THEN 1 ELSE 10 * Pow10(n - 1)

RECURSIVE ValueFrom(_, _)
ValueFrom(d, k) == IF k > Len(d) THEN 0
                   ELSE DigitVal(d[k]) * Pow10(Len(d) - k) + ValueFrom(d, k + 1)

\* the decimal value of a run of at most nine digits
DecimalValue(d) == ValueFrom(d, 1)

HasNeg(t) == Len(t) > 0 /\ t[1] = "!"

Run(t) == IF HasNeg(t) THEN Tail(t) ELSE t

\* an optional '!' followed by one to nine digits
IsBangDigits(t) == Len(Run(t)) \in 1..9 /\ AllDigits(Run(t))

\* ws* '!'? ws* digit{1,9} ws* and nothing else
GrammarShape(t) ==
    \E a \in 0..Len(t), bang \in 0..1, b \in 0..Len(t), n \in 1..9 :
        /\ a + bang + b + n <= Len(t)
        /\ \A k \in 1..a : IsSpace(t[k])
        /\ bang = 1 => t[a + 1] = "!"
        /\ \A k \in (a + bang + 1)..(a + bang + b) : IsSpace(t[k])
        /\ \A k \in (a + bang + b + 1)..(a + bang + b + n) : IsDigit(t[k])
        /\ \A k \in (a + bang + b + n + 1)..Len(t) : IsSpace(t[k])

\* the digits of a text
DigitsOf(t) == SelectSeq(t, IsDigit)

\* a DetectWindowParse call that met neither an allocation failure nor a
\* missing grammar object
CleanParse == last.op = "Parse" /\ parse_regex # NULL /\ last.oom = 0

\* the workers that are about to return from DetectWindowMatch
Returning == {w \in Workers : wk[w].pc = "ret"}

----------------------------------------------------------------------------
(* The claims *)

\* C1: an optional '!' followed by one to nine digits of value v <= 65535
\* parses to a predicate with size = v and negated = 1 exactly when the '!'
\* is there (the grammar object being compiled and no allocation failing).
C1_ValidOptionParses ==
    (CleanParse /\ IsBangDigits(last.text) /\ DecimalValue(Run(last.text)) <= 65535)
    => /\ last.ret # NULL
       /\ last.ret \in DOMAIN heap
       /\ heap[last.ret].kind = "wd"
       /\ heap[last.ret].size = DecimalValue(Run(last.text))
       /\ heap[last.ret].negated = (IF HasNeg(last.text) THEN 1 ELSE 0)

C1_Witness ==
    /\ CleanParse
    /\ last.text = <<"!", "6", "5", "5", "3", "5">>
    /\ last.ret # NULL
    /\ heap[last.ret].size = 65535
    /\ heap[last.ret].negated = 1

\* C2: a text of the grammar's shape whose digits are worth more than 65535
\* (up to 999999999) yields no predicate, and no predicate ever holds a size
\* outside 0..65535.
C2_OutOfRangeRejected ==
    /\ (last.op = "Parse" /\ GrammarShape(last.text)
        /\ DecimalValue(DigitsOf(last.text)) > 65535) => last.ret = NULL
    /\ \A p \in DOMAIN heap : heap[p].kind = "wd" => heap[p].size \in 0..65535

C2_Witness ==
    /\ CleanParse
    /\ last.text = <<"!", "9", "9", "9", "9", "9", "9", "9", "9", "9">>
    /\ last.ret = NULL

\* C3: DetectWindowParse returns a predicate only for a text of the shape
\* ws* '!'? ws* digit{1,9} ws*; every other text gets NULL.
C3_OnlyGrammarAccepted ==
    (last.op = "Parse" /\ last.ret # NULL) => GrammarShape(last.text)

\* a valid option followed by one stray character is rejected
C3_Witness ==
    /\ CleanParse
    /\ Len(last.text) > 1
    /\ GrammarShape(SubSeq(last.text, 1, Len(last.text) - 1))
    /\ ~GrammarShape(last.text)
    /\ last.ret = NULL

\* C4: on a TCP packet of window w, DetectWindowMatch returns 1 exactly when
\* (negated = 0 and w = size) or (negated = 1 and w # size), else 0.
C4_ExactValueMatch ==
    \A w \in Returning :
        (PKT_IS_TCP(wk[w].p) /\ wk[w].wd # NULL) =>
            LET t   == heap[wk[w].wd].size
                n   == heap[wk[w].wd].negated
                win == wk[w].p.th_win
            IN  wk[w].ret = (IF (n = 0 /\ win = t) \/ (n = 1 /\ win # t) THEN 1 ELSE 0)

\* a packet of window 190 matches the negated predicate of size 117
C4_Witness ==
    \E w \in Returning :
        /\ PKT_IS_TCP(wk[w].p)
        /\ wk[w].p.th_win = 190
        /\ heap[wk[w].wd].size = 117
        /\ heap[wk[w].wd].negated = 1
        /\ wk[w].ret = 1

\* C5: on a packet that is not TCP, DetectWindowMatch returns 0 whatever the
\* predicate, negated or not.
C5_NonTcpNeverMatches ==
    \A w \in Returning : ~PKT_IS_TCP(wk[w].p) => wk[w].ret = 0

C5_Witness ==
    \E w \in Returning :
        /\ ~PKT_IS_TCP(wk[w].p)
        /\ heap[wk[w].wd].negated = 1
        /\ wk[w].ret = 0

\* C6: the signature's list holds one window node per successful
\* DetectWindowSetup call, in the order of the calls, each with a predicate of
\* its own; a failing call returns -1, leaves the list as it was and leaves
\* neither a predicate nor a node allocated.
C6_SetupAppendsInOrder ==
    /\ (last.op = "Setup" /\ last.ret = 0) =>
          /\ Len(sig) = Len(last.sig0) + 1
          /\ SubSeq(sig, 1, Len(last.sig0)) = last.sig0
          /\ sig[Len(sig)] \in last.live
          /\ heap[sig[Len(sig)]].ctx \in last.live
          /\ heap[sig[Len(sig)]].text = last.text
    /\ (last.op = "Setup" /\ last.ret # 0) =>
          /\ last.ret = 0 - 1
          /\ sig = last.sig0
          /\ \A p \in last.live : heap[p].kind \notin {"wd", "sm"}
    /\ \A i \in 1..Len(sig) :
          /\ sig[i] \in DOMAIN heap
          /\ heap[sig[i]].kind = "sm"
          /\ heap[sig[i]].type = "DETECT_WINDOW"
          /\ heap[sig[i]].ctx \in DOMAIN heap
          /\ heap[heap[sig[i]].ctx].kind = "wd"
    /\ \A i, j \in 1..Len(sig) :
          i < j => /\ sig[i] # sig[j]
                   /\ heap[sig[i]].ctx # heap[sig[j]].ctx
                   /\ heap[sig[i]].n < heap[sig[j]].n
    /\ Cardinality({p \in DOMAIN heap : heap[p].kind = "sm"}) = Len(sig)

\* the second successful call has put its node behind the first
C6_Witness ==
    /\ last.op = "Setup"
    /\ last.ret = 0
    /\ Len(sig) = 2
    /\ heap[sig[1]].n = 1
    /\ heap[sig[2]].n = 2

\* C7: a grammar object that fails to compile aborts startup: the "window"
\* keyword is never in the keyword table while parse_regex is unusable.
C7_NoKeywordWithoutGrammar ==
    ~(sigmatch_table.name = "window" /\ parse_regex = NULL)

\* C8: when DetectWindowParse fails, nothing it allocated outlives the call.
C8_FailureLeavesNothing ==
    (last.op = "Parse" /\ last.ret = NULL) => last.live = {}

Compiled(text) ==
    LET r == DetectWindowParse(COMPILED, text, EmptyHeap, 0)
    IN  [size |-> r.heap[r.wd].size, negated |-> r.heap[r.wd].negated]

\* C10: with any number of workers inside DetectWindowMatch on the same
\* predicate, every call returns what it would return alone, and no step of a
\* call changes the predicate, the packet or the grammar object: an attached
\* predicate keeps the values DetectWindowParse gave it until it is freed.
C10_ResultAsAlone ==
    /\ \A w \in Returning : wk[w].ret = DetectWindowMatch(heap, wk[w].p, wk[w].m)
    /\ \A i \in 1..Len(sig) :
          LET wd == heap[heap[sig[i]].ctx]
          IN  [size |-> wd.size, negated |-> wd.negated] = Compiled(heap[sig[i]].text)

C10_MatchWritesNothing ==
    (phase = "run" /\ phase' = "run") =>
        /\ heap' = heap
        /\ sig' = sig
        /\ parse_regex' = parse_regex
        /\ parse_regex_study' = parse_regex_study
        /\ \A w \in Workers : wk[w].pc # "idle" => (wk'[w].pc = "idle" \/ wk'[w].p = wk[w].p)

C10_ConcurrentMatchIsPure == [](C10_ResultAsAlone) /\ [][C10_MatchWritesNothing]_vars

\* two workers are inside DetectWindowMatch on the same predicate at once
C10_Witness ==
    \E v, w \in Workers :
        /\ v # w
        /\ wk[v].pc = "cmp"
        /\ wk[w].pc = "ret"
        /\ wk[v].wd = wk[w].wd
        /\ wk[w].ret = 1

====
